---- MODULE Spec2Model ----
(***************************************************************************)
(* Model of administration_system/api/postgres_api.py (class PostgresAPI)  *)
(* driven by administration_system/json_runner.py.                         *)
(*                                                                         *)
(* State: the four tables of the store as the single connection sees them, *)
(* the request being served and what the call produced (a JSON envelope,   *)
(* None, or an exception that left the method).  json_runner.py calls the  *)
(* operations one after the other inside one list comprehension, so an     *)
(* exception that leaves an operation ends the run: no operation follows.  *)
(* budget counts the operations the bounded run may still serve.           *)
(*                                                                         *)
(* The schema is db_definition.sql, executed by PostgresAPI.open.  Its     *)
(* tables, their primary keys and the per-action vote counters the         *)
(* queries read (upvotes, downvotes) follow the specification's            *)
(* description of the store.                                               *)
(***************************************************************************)
EXTENDS Integers, Sequences, FiniteSets, TLC

VARIABLES member, project, action, vote, req, ret, budget

vars == <<member, project, action, vote, req, ret, budget>>

(***************************************************************************)
(* Bounds of the model.                                                    *)
(***************************************************************************)
MaxMember == 2
MaxPassword == 2
MaxTimestamp == 3
MaxAction == 3
MaxProject == 1
MaxOps == 2
MaxVoteOps == 3
MaxTrollOps == 2

Members == 1..MaxMember
Passwords == 1..MaxPassword
Timestamps == 1..MaxTimestamp
ActionIds == 1..MaxAction
ProjectIds == 1..MaxProject

(***************************************************************************)
(* Python values.                                                          *)
(***************************************************************************)
\* None, and a supplied value of an optional argument
None == <<>>
Some(v) == <<v>>
Optional(S) == {None} \cup {Some(v) : v \in S}

STATUS_SUCCESS == "OK"
STATUS_FAILURE == "ERROR"

ActionTypes == {"support", "protest"}

\* datetime.fromtimestamp: the calendar date of an epoch tick.  Two ticks
\* make a year here; only the year is ever read back (line 270, line 195).
FromTimestamp(timestamp) ==
    [year |-> timestamp \div 2, tick |-> timestamp % 2]

\* datetime.now(): the wall clock, read at the latest tick of the model
DatetimeNow == FromTimestamp(MaxTimestamp)

(***************************************************************************)
(* Exceptions.  InvalidMember and InvalidRowCount derive from              *)
(* DatabaseException, which derives from psycopg2.InternalError.           *)
(* psycopg2.IntegrityError (a violated primary key) is a sibling of        *)
(* InternalError under psycopg2.DatabaseError, not a subclass of it.       *)
(***************************************************************************)
NoExc == "NoExc"

Bases(exc) ==
    CASE exc = "InvalidMember" ->
           {"InvalidMember", "DatabaseException", "InternalError"}
      [] exc = "InvalidRowCount" ->
           {"InvalidRowCount", "DatabaseException", "InternalError"}
      [] exc = "IntegrityError" -> {"IntegrityError"}
      [] OTHER -> {}

\* `except cls:` catches exc
Catches(cls, exc) == cls \in Bases(exc)

(***************************************************************************)
(* The store.                                                              *)
(***************************************************************************)
EmptyDb == [member |-> {}, project |-> {}, action |-> {}, vote |-> {}]

\* outcome of a step of a handler: the tables after it, and the exception
\* it raised (NoExc when it returned)
Return(db) == [db |-> db, exc |-> NoExc]
Raise(db, exc) == [db |-> db, exc |-> exc]

\* crypt(password, salt) of the store's crypto extension: the hash carries
\* its salt, and hashing the same password under the same salt gives the
\* same hash
Crypt(password, salt) == <<salt, password>>
GenSalt == "bf"
SaltOf(hash) == hash[1]

PrimaryKey(table, row) ==
    CASE table = "vote" -> <<row.id_member, row.id_action>>
      [] OTHER -> <<row.id>>

\* the vote counters of an action follow the votes inserted for it
CountVote(actions, v) ==
    {IF a.id = v.id_action
       THEN [a EXCEPT !.upvotes = @ + (IF v.direction = "up" THEN 1 ELSE 0),
                      !.downvotes = @ + (IF v.direction = "down" THEN 1 ELSE 0)]
       ELSE a : a \in actions}

\* INSERT INTO table VALUES row
Insert(db, table, row) ==
    IF \E r \in db[table] : PrimaryKey(table, r) = PrimaryKey(table, row)
      THEN Raise(db, "IntegrityError")
      ELSE LET added == [db EXCEPT ![table] = @ \cup {row}]
           IN  IF table = "vote"
                 THEN Return([added EXCEPT !.action = CountVote(@, row)])
                 ELSE Return(added)

\* _generate_condition: the WHERE clause of the supplied (non-None) keys
GenerateCondition(kwargs) ==
    [k \in {c \in DOMAIN kwargs : kwargs[c] # None} |-> kwargs[k][1]]

\* rows satisfying "WHERE 1=1 AND k='v' ..."
Where(rows, condition) ==
    {r \in rows : \A k \in DOMAIN condition : r[k] = condition[k]}

\* _row_existence_check
RowExistenceCheck(db, table, kwargs) ==
    IF Where(db[table], GenerateCondition(kwargs)) = {}
      THEN "InvalidRowCount"
      ELSE NoExc

\* _validate_member without the activity-year comparison
ValidateMemberAnyYear(db, m, password) ==
    LET rows == {r \in db.member :
                   r.id = m /\ r.password = Crypt(password, SaltOf(r.password))}
    IN  IF rows = {} THEN "InvalidMember" ELSE NoExc

\* _validate_member
ValidateMember(db, m, password) ==
    LET rows == {r \in db.member :
                   r.id = m /\ r.password = Crypt(password, SaltOf(r.password))}
    IN  IF rows = {}
          THEN "InvalidMember"
          ELSE LET fetchone == CHOOSE r \in rows : TRUE
               IN  IF DatetimeNow.year - fetchone.activity_date.year # 0
                     THEN "InvalidMember"
                     ELSE NoExc

\* _create_member
CreateMember(db, m, password, rank, timestamp) ==
    Insert(db, "member",
           [id |-> m, password |-> Crypt(password, GenSalt), rank |-> rank,
            activity_date |-> timestamp])

\* _handle_member without its existence check and validation
HandleMemberAlwaysCreates(db, m, password, timestamp) ==
    CreateMember(db, m, password, "regular", timestamp)

\* _handle_member that stamps the member it has authenticated
HandleMemberTouches(db, m, password, timestamp) ==
    LET e1 == RowExistenceCheck(db, "member", [id |-> Some(m)])
        e2 == IF e1 = NoExc THEN ValidateMember(db, m, password) ELSE e1
    IN  IF e2 = NoExc
          THEN Return([db EXCEPT !.member =
                         {IF r.id = m THEN [r EXCEPT !.activity_date = timestamp]
                                      ELSE r : r \in @}])
          ELSE IF Catches("DatabaseException", e2)
                 THEN CreateMember(db, m, password, "regular", timestamp)
                 ELSE Raise(db, e2)

\* _handle_member
HandleMember(db, m, password, timestamp) ==
    LET e1 == RowExistenceCheck(db, "member", [id |-> Some(m)])
        e2 == IF e1 = NoExc THEN ValidateMember(db, m, password) ELSE e1
    IN  IF e2 = NoExc
          THEN Return(db)
          ELSE IF Catches("DatabaseException", e2)
                 THEN CreateMember(db, m, password, "regular", timestamp)
                 ELSE Raise(db, e2)

\* _handle_project that forgets to raise when no authority is supplied
HandleProjectNoRaise(db, p, authority, timestamp) ==
    LET e == RowExistenceCheck(db, "project", [id |-> Some(p)])
    IN  IF e = NoExc \/ authority = None
          THEN Return(db)
          ELSE Insert(db, "project",
                      [id |-> p, id_leader |-> authority[1],
                       creation_date |-> timestamp])

\* _handle_project that hands an existing project to the authority given
HandleProjectReassigns(db, p, authority, timestamp) ==
    LET e == RowExistenceCheck(db, "project", [id |-> Some(p)])
    IN  IF e = NoExc
          THEN IF authority = None
                 THEN Return(db)
                 ELSE Return([db EXCEPT !.project =
                                {IF pr.id = p
                                   THEN [pr EXCEPT !.id_leader = authority[1]]
                                   ELSE pr : pr \in @}])
          ELSE IF authority = None
                 THEN Raise(db, "InvalidMember")
                 ELSE Insert(db, "project",
                             [id |-> p, id_leader |-> authority[1],
                              creation_date |-> timestamp])

\* _handle_project
HandleProject(db, p, authority, timestamp) ==
    LET e == RowExistenceCheck(db, "project", [id |-> Some(p)])
    IN  IF e = NoExc
          THEN Return(db)
          ELSE IF Catches("InvalidRowCount", e)
                 THEN IF authority = None
                        THEN Raise(db, "InvalidMember")
                        ELSE Insert(db, "project",
                                    [id |-> p, id_leader |-> authority[1],
                                     creation_date |-> timestamp])
                 ELSE Raise(db, e)

\* _verify_leader without the rank check
VerifyLeaderAnyRank(db, m, password) ==
    ValidateMember(db, m, password)

\* _verify_leader
VerifyLeader(db, m, password) ==
    LET e1 == ValidateMember(db, m, password)
    IN  IF e1 # NoExc
          THEN e1
          ELSE LET e2 == RowExistenceCheck(db, "member",
                                           [id |-> Some(m), rank |-> Some("leader")])
               IN  IF Catches("InvalidRowCount", e2) THEN "InvalidMember" ELSE e2

(***************************************************************************)
(* What a call produces.                                                   *)
(***************************************************************************)
NoData == <<>>

\* json.dumps({'status': status})
Envelope(status) ==
    [kind |-> "json", keys |-> {"status"}, status |-> status, data |-> NoData,
     exc |-> NoExc]
\* json.dumps({'status': status, 'data': rows})
EnvelopeData(status, rows) ==
    [kind |-> "json", keys |-> {"status", "data"}, status |-> status,
     data |-> rows, exc |-> NoExc]
\* the method ends without a return statement
ReturnsNone ==
    [kind |-> "None", keys |-> {}, status |-> "", data |-> NoData, exc |-> NoExc]
\* the exception leaves the method
Escapes(exc) ==
    [kind |-> "raise", keys |-> {}, status |-> "", data |-> NoData, exc |-> exc]

\* try: ... return success  except psycopg2.InternalError: return failure
TryExcept(out, success) ==
    IF out.exc = NoExc
      THEN success
      ELSE IF Catches("InternalError", out.exc)
             THEN Envelope(STATUS_FAILURE)
             ELSE Escapes(out.exc)

(***************************************************************************)
(* The mutating operations.                                                *)
(***************************************************************************)
\* leader
LeaderOut(db, timestamp, password, m) ==
    CreateMember(db, m, password, "leader", FromTimestamp(timestamp))

\* _define_action
DefineActionOut(db, timestamp, m, password, a, p, statement, authority) ==
    LET ts == FromTimestamp(timestamp)
        s1 == HandleMember(db, m, password, ts)
        s2 == IF s1.exc = NoExc THEN HandleProject(s1.db, p, authority, ts) ELSE s1
    IN  IF s2.exc = NoExc
          THEN Insert(s2.db, "action",
                      [id |-> a, id_project |-> p, id_member |-> m,
                       type |-> statement, creation_date |-> ts,
                       upvotes |-> 0, downvotes |-> 0])
          ELSE s2

\* _vote without the existence check of the action
VoteOutUnchecked(db, timestamp, m, password, a, direction) ==
    LET ts == FromTimestamp(timestamp)
        s1 == HandleMember(db, m, password, ts)
    IN  IF s1.exc = NoExc
          THEN Insert(s1.db, "vote",
                      [id_member |-> m, id_action |-> a, direction |-> direction,
                       creation_date |-> ts])
          ELSE s1

\* _vote
VoteOut(db, timestamp, m, password, a, direction) ==
    LET ts == FromTimestamp(timestamp)
        s1 == HandleMember(db, m, password, ts)
        e2 == IF s1.exc = NoExc
                THEN RowExistenceCheck(s1.db, "action", [id |-> Some(a)])
                ELSE s1.exc
    IN  IF e2 = NoExc
          THEN Insert(s1.db, "vote",
                      [id_member |-> m, id_action |-> a, direction |-> direction,
                       creation_date |-> ts])
          ELSE Raise(s1.db, e2)

(***************************************************************************)
(* The read operations.                                                    *)
(***************************************************************************)
\* a < b for two sort keys (tuples of integers of one length)
LexLess(a, b) ==
    \E i \in 1..Len(a) : a[i] < b[i] /\ \A j \in 1..(i - 1) : a[j] = b[j]

\* ORDER BY: the row sequences the store may return for a set of rows and
\* their sort keys; rows of equal key come in any order
RECURSIVE OrderBy(_, _)
OrderBy(rows, key) ==
    IF rows = {}
      THEN {<<>>}
      ELSE UNION {{<<x>> \o rest : rest \in OrderBy(rows \ {x}, key)} :
                    x \in {y \in rows : \A z \in rows : ~LexLess(key[z], key[y])}}

\* COALESCE(x, default) of a nullable value
Coalesce(x, default) == IF x = None THEN default ELSE x[1]

\* actions: the SELECT of lines 123-126
ActionsQuery(db, action_type, p, authority) ==
    LET condition == GenerateCondition(
                       ("type" :> action_type) @@ ("project.id" :> p)
                         @@ ("project.id_leader" :> authority))
        \* action LEFT JOIN vote ON (action.id=vote.id_action)
        left == {<<a, v>> : a \in db.action,
                            v \in Optional({w \in db.vote : TRUE})}
        joinedVote == {av \in left :
                         IF av[2] = None
                           THEN \A w \in db.vote : w.id_action # av[1].id
                           ELSE av[2][1].id_action = av[1].id}
        \* JOIN project ON (action.id_project=project.id)
        joined == UNION {
                    {("action.id" :> av[1].id) @@ ("type" :> av[1].type)
                       @@ ("id_project" :> av[1].id_project)
                       @@ ("project.id" :> pr.id)
                       @@ ("project.id_leader" :> pr.id_leader)
                       @@ ("upvotes" :> av[1].upvotes)
                       @@ ("downvotes" :> av[1].downvotes) :
                     pr \in {q \in db.project : q.id = av[1].id_project}} :
                    av \in joinedVote}
        rows == {<<j["action.id"], j["type"], j["id_project"],
                   j["project.id_leader"], j["upvotes"], j["downvotes"]>> :
                 j \in Where(joined, condition)}
    IN  OrderBy(rows, [r \in rows |-> <<r[1]>>])

\* projects: the SELECT of line 147
ProjectsQuery(db, authority) ==
    LET condition == GenerateCondition([id_leader |-> authority])
        rows == {<<pr.id, pr.id_leader>> : pr \in Where(db.project, condition)}
    IN  OrderBy(rows, [r \in rows |-> <<r[1]>>])

\* the SELECT of votes with JOIN in place of member LEFT JOIN votes: only
\* the members with a matching vote are returned
VotesQueryInnerJoin(db, a, p) ==
    LET condition == GenerateCondition(
                       ("vote.id_action" :> a) @@ ("project.id" :> p))
        voteAction == {<<v, ac>> \in db.vote \X db.action : v.id_action = ac.id}
        joined == UNION {
                    {("vote.id_member" :> va[1].id_member)
                       @@ ("vote.id_action" :> va[1].id_action)
                       @@ ("project.id" :> pr.id)
                       @@ ("upvotes" :> va[2].upvotes)
                       @@ ("downvotes" :> va[2].downvotes) :
                     pr \in {q \in db.project : q.id = va[2].id_project}} :
                    va \in voteAction}
        rows == {<<j["vote.id_member"], j["upvotes"], j["downvotes"]>> :
                 j \in {x \in Where(joined, condition) :
                          \E m \in db.member : m.id = x["vote.id_member"]}}
    IN  OrderBy(rows, [r \in rows |-> <<r[1]>>])

\* votes: the SELECT of lines 170-175
VotesQuery(db, a, p) ==
    LET condition == GenerateCondition(
                       ("vote.id_action" :> a) @@ ("project.id" :> p))
        \* vote LEFT JOIN action ON (vote.id_action=action.id)
        \* JOIN project ON (action.id_project=project.id): a vote joined to
        \* no action has a NULL id_project, joins no project and drops out
        voteAction == {<<v, ac>> \in db.vote \X db.action : v.id_action = ac.id}
        joined == UNION {
                    {("vote.id_member" :> va[1].id_member)
                       @@ ("vote.id_action" :> va[1].id_action)
                       @@ ("project.id" :> pr.id)
                       @@ ("upvotes" :> va[2].upvotes)
                       @@ ("downvotes" :> va[2].downvotes) :
                     pr \in {q \in db.project : q.id = va[2].id_project}} :
                    va \in voteAction}
        votes == {[id_member |-> j["vote.id_member"], upvotes |-> j["upvotes"],
                   downvotes |-> j["downvotes"]] :
                  j \in Where(joined, condition)}
        \* member LEFT JOIN votes ON (member.id=votes.id_member)
        rows == UNION {
                  LET mine == {s \in votes : s.id_member = m.id}
                  IN  IF mine = {}
                        THEN {<<m.id, Coalesce(None, 0), Coalesce(None, 0)>>}
                        ELSE {<<m.id, Coalesce(Some(s.upvotes), 0),
                                Coalesce(Some(s.downvotes), 0)>> : s \in mine} :
                  m \in db.member}
    IN  OrderBy(rows, [r \in rows |-> <<r[1]>>])

\* SUM over a set of joined rows (each row is one summand)
RECURSIVE Sum(_, _)
Sum(rows, column) ==
    IF rows = {}
      THEN 0
      ELSE LET r == CHOOSE x \in rows : TRUE
           IN  r[column] + Sum(rows \ {r}, column)

\* trolls: the SELECT of lines 194-200
TrollsQuery(db, timestamp) ==
    LET ts == FromTimestamp(timestamp)
        \* member JOIN action ON (member.id=action.id_member)
        \* WHERE downvotes - upvotes > 0
        joined == {<<m, ac>> \in db.member \X db.action : m.id = ac.id_member}
        filtered == {[id |-> j[1].id, activity_date |-> j[1].activity_date,
                      action |-> j[2].id, upvotes |-> j[2].upvotes,
                      downvotes |-> j[2].downvotes] :
                     j \in {x \in joined : x[2].downvotes - x[2].upvotes > 0}}
        \* GROUP BY member.id, upvotes, downvotes
        groups == {<<j.id, j.upvotes, j.downvotes>> : j \in filtered}
        Group(g) == {j \in filtered :
                       <<j.id, j.upvotes, j.downvotes>> = g}
        Row(g) == LET any == CHOOSE j \in Group(g) : TRUE
                  IN  <<g[1], Sum(Group(g), "upvotes"), Sum(Group(g), "downvotes"),
                        ts.year - any.activity_date.year <= 0>>
        \* ORDER BY downvotes-upvotes DESC, member.id ASC
        keyed == {[row |-> Row(g), key |-> <<g[2] - g[3], g[1]>>] : g \in groups}
        orders == OrderBy(keyed, [k \in keyed |-> k.key])
    IN  {[i \in 1..Len(o) |-> o[i].row] : o \in orders}

Db == [member |-> member, project |-> project, action |-> action, vote |-> vote]

Running == budget > 0 /\ ret.kind # "raise"

Serve(request, out, result) ==
    /\ member' = out.db.member
    /\ project' = out.db.project
    /\ action' = out.db.action
    /\ vote' = out.db.vote
    /\ req' = request
    /\ ret' = result
    /\ budget' = budget - 1

Leader ==
    /\ Running
    /\ \E timestamp \in Timestamps, password \in Passwords, m \in Members :
         LET out == LeaderOut(Db, timestamp, password, m)
         IN  Serve([op |-> "leader",
                    kwargs |-> [timestamp |-> timestamp, password |-> password,
                                member |-> m]],
                   out, TryExcept(out, ReturnsNone))

\* _define_action, served for support or protest
DefineAction(statement, timestamp, m, password, a, p, authority) ==
    LET out == DefineActionOut(Db, timestamp, m, password, a, p, statement,
                               authority)
    IN  Serve([op |-> statement,
               kwargs |-> [timestamp |-> timestamp, member |-> m,
                           password |-> password, action |-> a,
                           project |-> p, authority |-> authority]],
              out, TryExcept(out, Envelope(STATUS_SUCCESS)))

Support ==
    /\ Running
    /\ \E timestamp \in Timestamps, m \in Members, password \in Passwords,
          a \in ActionIds, p \in ProjectIds, authority \in Optional(Members) :
         DefineAction("support", timestamp, m, password, a, p, authority)

Protest ==
    /\ Running
    /\ \E timestamp \in Timestamps, m \in Members, password \in Passwords,
          a \in ActionIds, p \in ProjectIds, authority \in Optional(Members) :
         DefineAction("protest", timestamp, m, password, a, p, authority)

\* _vote, served for upvote or downvote
Vote(operation, timestamp, m, password, a, direction) ==
    LET out == VoteOut(Db, timestamp, m, password, a, direction)
    IN  Serve([op |-> operation,
               kwargs |-> [timestamp |-> timestamp, member |-> m,
                           password |-> password, action |-> a]],
              out, TryExcept(out, Envelope(STATUS_SUCCESS)))

Upvote ==
    /\ Running
    /\ \E timestamp \in Timestamps, m \in Members, password \in Passwords,
          a \in ActionIds :
         Vote("upvote", timestamp, m, password, a, "up")

Downvote ==
    /\ Running
    /\ \E timestamp \in Timestamps, m \in Members, password \in Passwords,
          a \in ActionIds :
         Vote("downvote", timestamp, m, password, a, "down")

\* a listing that provisions the member it is asked by, as the mutating
\* operations do
ListingProvisions(request, m, password, results) ==
    LET s == HandleMember(Db, m, password, DatetimeNow)
        e == IF s.exc = NoExc THEN VerifyLeader(s.db, m, password) ELSE s.exc
        out == IF e = NoExc THEN Return(s.db) ELSE Raise(s.db, e)
    IN  \E data \in (IF e = NoExc THEN results ELSE {NoData}) :
          Serve(request, out, TryExcept(out, EnvelopeData(STATUS_SUCCESS, data)))

\* try: self._verify_leader(...); execute; return success with the rows
\* except psycopg2.InternalError: return failure
Listing(request, m, password, results) ==
    LET e == VerifyLeader(Db, m, password)
        out == IF e = NoExc THEN Return(Db) ELSE Raise(Db, e)
    IN  \E data \in (IF e = NoExc THEN results ELSE {NoData}) :
          Serve(request, out, TryExcept(out, EnvelopeData(STATUS_SUCCESS, data)))

Actions ==
    /\ Running
    /\ \E m \in Members, password \in Passwords,
          action_type \in Optional(ActionTypes), p \in Optional(ProjectIds),
          authority \in Optional(Members) :
         Listing([op |-> "actions",
                  kwargs |-> [member |-> m, password |-> password,
                              action_type |-> action_type, project |-> p,
                              authority |-> authority]],
                 m, password, ActionsQuery(Db, action_type, p, authority))

Projects ==
    /\ Running
    /\ \E m \in Members, password \in Passwords, authority \in Optional(Members) :
         Listing([op |-> "projects",
                  kwargs |-> [member |-> m, password |-> password,
                              authority |-> authority]],
                 m, password, ProjectsQuery(Db, authority))

Votes ==
    /\ Running
    /\ \E m \in Members, password \in Passwords,
          a \in Optional(ActionIds), p \in Optional(ProjectIds) :
         Listing([op |-> "votes",
                  kwargs |-> [member |-> m, password |-> password,
                              action |-> a, project |-> p]],
                 m, password, VotesQuery(Db, a, p))

Trolls ==
    /\ Running
    /\ \E timestamp \in Timestamps :
         \E data \in TrollsQuery(Db, timestamp) :
           Serve([op |-> "trolls", kwargs |-> [timestamp |-> timestamp]],
                 Return(Db), EnvelopeData(STATUS_SUCCESS, data))

\* before the first request
NoRequest == [op |-> "", kwargs |-> <<>>]
NoResult ==
    [kind |-> "", keys |-> {}, status |-> "", data |-> NoData, exc |-> NoExc]

\* the store after open(): the tables of db_definition.sql, empty
Init ==
    /\ member = {}
    /\ project = {}
    /\ action = {}
    /\ vote = {}
    /\ req = NoRequest
    /\ ret = NoResult
    /\ budget = MaxOps

Next ==
    \/ Leader
    \/ Support
    \/ Protest
    \/ Upvote
    \/ Downvote
    \/ Actions
    \/ Projects
    \/ Votes
    \/ Trolls

Spec == Init /\ [][Next]_vars

(***************************************************************************)
(* Runs that start where a batch has already defined a leader and two      *)
(* actions: the store after leader(member 1), support(action 1 by author1, *)
(* project 1, authority 1) and protest(action 2 by author2, project 1),    *)
(* every request stamped at the current tick.  From there the votes and    *)
(* the queries over them are served.                                       *)
(***************************************************************************)
SeedDb(author1, author2) ==
    LET s0 == LeaderOut(EmptyDb, MaxTimestamp, 1, 1).db
        s1 == DefineActionOut(s0, MaxTimestamp, author1, 1, 1, 1, "support",
                              Some(1)).db
    IN  DefineActionOut(s1, MaxTimestamp, author2, 1, 2, 1, "protest", None).db

InitVotes ==
    \E author1 \in Members, author2 \in Members :
      /\ member = SeedDb(author1, author2).member
      /\ project = SeedDb(author1, author2).project
      /\ action = SeedDb(author1, author2).action
      /\ vote = SeedDb(author1, author2).vote
      /\ req = [op |-> "protest",
                kwargs |-> [timestamp |-> MaxTimestamp, member |-> author2,
                            password |-> 1, action |-> 2, project |-> 1,
                            authority |-> None]]
      /\ ret = Envelope(STATUS_SUCCESS)
      /\ budget = MaxVoteOps

NextVotes ==
    \/ Upvote
    \/ Downvote
    \/ Votes
    \/ Trolls

SpecVotes == InitVotes /\ [][NextVotes]_vars

(***************************************************************************)
(* Runs that start where the batch has gone on to define a third action    *)
(* (support(action 3 by author3, project 1)) and one member has downvoted  *)
(* actions 1 and 2.  From there further votes and the troll query are      *)
(* served.                                                                 *)
(***************************************************************************)
SeedTrolls(author1, author2, author3, voter) ==
    LET s0 == DefineActionOut(SeedDb(author1, author2), MaxTimestamp, author3,
                              1, 3, 1, "support", None).db
        s1 == VoteOut(s0, MaxTimestamp, voter, 1, 1, "down").db
    IN  VoteOut(s1, MaxTimestamp, voter, 1, 2, "down").db

InitTrolls ==
    \E author1 \in Members, author2 \in Members, author3 \in Members,
       voter \in Members :
      /\ member = SeedTrolls(author1, author2, author3, voter).member
      /\ project = SeedTrolls(author1, author2, author3, voter).project
      /\ action = SeedTrolls(author1, author2, author3, voter).action
      /\ vote = SeedTrolls(author1, author2, author3, voter).vote
      /\ req = [op |-> "downvote",
                kwargs |-> [timestamp |-> MaxTimestamp, member |-> voter,
                            password |-> 1, action |-> 2]]
      /\ ret = Envelope(STATUS_SUCCESS)
      /\ budget = MaxTrollOps

NextTrolls ==
    \/ Upvote
    \/ Downvote
    \/ Trolls

SpecTrolls == InitTrolls /\ [][NextTrolls]_vars

(***************************************************************************)
(* Vocabulary of the properties.                                           *)
(***************************************************************************)
ProvisioningOps == {"support", "protest", "upvote", "downvote"}
DefineOps == {"support", "protest"}
VoteOps == {"upvote", "downvote"}
ListingOps == {"actions", "projects", "votes"}
MutatingOps == {"leader"} \cup ProvisioningOps

\* this step served a request of one of ops (req' is that request, the
\* unprimed tables are the store before it, the primed ones the store after)
Acted(ops) == budget' # budget /\ req'.op \in ops

RowsOf(table, id) == {r \in table : r.id = id}

\* the member has a row whose stored hash is the hash of this password
PasswordMatches(table, id, password) ==
    \E r \in RowsOf(table, id) : r.password = Crypt(password, SaltOf(r.password))

\* ... and whose activity year is the year of the wall clock
Authenticates(table, id, password) ==
    \E r \in RowsOf(table, id) :
      /\ r.password = Crypt(password, SaltOf(r.password))
      /\ r.activity_date.year = DatetimeNow.year

IsSuccess(result) == result.kind = "json" /\ result.status = STATUS_SUCCESS
IsFailure(result) == result.kind = "json" /\ result.status = STATUS_FAILURE

OneVotePerPair(votes) ==
    \A v, w \in votes :
      (v.id_member = w.id_member /\ v.id_action = w.id_action) => v = w

(***************************************************************************)
(* C1.  At most one vote per (member, action) pair is ever stored, and an  *)
(* upvote or downvote by a member who already has a vote on that action    *)
(* returns the failure status and leaves the vote table as it was.         *)
(* Stated as the claim has it; the second vote does not return at all.     *)
(***************************************************************************)
C1_SecondVoteReturnsFailure ==
    [][(Acted(VoteOps) =>
          /\ OneVotePerPair(vote')
          /\ (\E v \in vote : /\ v.id_member = req'.kwargs.member
                              /\ v.id_action = req'.kwargs.action)
               => (IsFailure(ret') /\ vote' = vote))]_vars

(***************************************************************************)
(* C2.  A support, protest, upvote or downvote naming a member id without  *)
(* a row leaves exactly one row for it: rank regular, the hash of the      *)
(* given password, the date of the given timestamp.  A later such request  *)
(* with the same id and the correct password, served while the stored      *)
(* activity year is the current year, leaves the member table unchanged    *)
(* and succeeds exactly when its remaining steps do.                       *)
(***************************************************************************)
RemainingStepsSucceed(request) ==
    IF request.op \in DefineOps
      THEN /\ (RowsOf(project, request.kwargs.project) # {}
                 \/ request.kwargs.authority # None)
           /\ RowsOf(action, request.kwargs.action) = {}
      ELSE /\ RowsOf(action, request.kwargs.action) # {}
           /\ ~ \E v \in vote : /\ v.id_member = request.kwargs.member
                                /\ v.id_action = request.kwargs.action

\* C2, amended: provisioned once with the given data; reused unchanged when
\* the member authenticates, the request succeeding iff its later steps do
C2_ProvisionOnceThenReuse ==
    [][(Acted(ProvisioningOps) =>
          LET k == req'.kwargs
          IN  /\ RowsOf(member, k.member) = {}
                   => RowsOf(member', k.member) =
                        {[id |-> k.member,
                          password |-> Crypt(k.password, GenSalt),
                          rank |-> "regular",
                          activity_date |-> FromTimestamp(k.timestamp)]}
              /\ Authenticates(member, k.member, k.password)
                   => /\ member' = member
                      /\ Cardinality(RowsOf(member', k.member)) = 1
                      /\ IsSuccess(ret') <=> RemainingStepsSucceed(req'))]_vars

\* C2 as claimed: the later request succeeds whenever the password is right
C2_LaterRequestSucceeds ==
    [][(Acted(ProvisioningOps) =>
          LET k == req'.kwargs
          IN  /\ RowsOf(member, k.member) = {}
                   => RowsOf(member', k.member) =
                        {[id |-> k.member,
                          password |-> Crypt(k.password, GenSalt),
                          rank |-> "regular",
                          activity_date |-> FromTimestamp(k.timestamp)]}
              /\ PasswordMatches(member, k.member, k.password)
                   => /\ IsSuccess(ret')
                      /\ Cardinality(RowsOf(member', k.member)) = 1)]_vars

\* a regular member whose row an earlier request created (its date is not
\* this request's) has just been served again, successfully, and still has
\* its single row
C2_Witness ==
    /\ req.op \in ProvisioningOps
    /\ IsSuccess(ret)
    /\ Cardinality(RowsOf(member, req.kwargs.member)) = 1
    /\ \E r \in RowsOf(member, req.kwargs.member) :
         /\ r.rank = "regular"
         /\ r.activity_date # FromTimestamp(req.kwargs.timestamp)
         /\ r.password = Crypt(req.kwargs.password, SaltOf(r.password))

(***************************************************************************)
(* C3.  When a support, protest, upvote or downvote names a member that    *)
(* has a row and authentication fails (wrong password or stale year), the  *)
(* member table is unchanged and the failure status is returned.  Stated   *)
(* as the claim has it; the handler inserts the member again instead.      *)
(***************************************************************************)
C3_AuthFailureReported ==
    [][(Acted(ProvisioningOps) =>
          LET k == req'.kwargs
          IN  (RowsOf(member, k.member) # {}
                 /\ ~Authenticates(member, k.member, k.password))
                => (member' = member /\ ret' = Envelope(STATUS_FAILURE)))]_vars

(***************************************************************************)
(* C4.  A support, protest, upvote or downvote that returns the failure    *)
(* status leaves the four tables as they were before it.  Stated as the    *)
(* claim has it; rows of the earlier steps stay.                           *)
(***************************************************************************)
C4_FailureLeavesNoPartialState ==
    [][((Acted(ProvisioningOps) /\ IsFailure(ret')) =>
          /\ member' = member
          /\ project' = project
          /\ action' = action
          /\ vote' = vote)]_vars

(***************************************************************************)
(* C5.  A support or protest creates a project row only if the project id  *)
(* had no row and an authority was supplied, and the row it creates is     *)
(* owned by that authority.  When the member step completes (the member    *)
(* is new, or authenticates), it creates the row in exactly that case.     *)
(* With no row and no authority the request does not succeed and inserts   *)
(* neither a project nor an action row.                                    *)
(***************************************************************************)
MemberStepCompletes(k) ==
    RowsOf(member, k.member) = {} \/ Authenticates(member, k.member, k.password)

\* C5, amended: created only if absent and authority given; created in
\* exactly that case once the member step completes
C5_ProjectCreatedIffAbsentAndAuthority ==
    [][(Acted(DefineOps) =>
          LET k == req'.kwargs
              absent == RowsOf(project, k.project) = {}
          IN  /\ project' # project
                   => /\ absent
                      /\ k.authority # None
                      /\ project' = project \cup
                           {[id |-> k.project, id_leader |-> k.authority[1],
                             creation_date |-> FromTimestamp(k.timestamp)]}
              /\ (MemberStepCompletes(k) /\ absent /\ k.authority # None)
                   => project' # project
              /\ (absent /\ k.authority = None)
                   => (~IsSuccess(ret') /\ action' = action /\ project' = project)
              /\ (MemberStepCompletes(k) /\ absent /\ k.authority = None)
                   => IsFailure(ret'))]_vars

\* C5 as claimed: the row is created in that case for every request
C5_EveryRequest ==
    [][(Acted(DefineOps) =>
          LET k == req'.kwargs
              absent == RowsOf(project, k.project) = {}
          IN  /\ project' # project <=> (absent /\ k.authority # None)
              /\ (absent /\ k.authority = None)
                   => (~IsSuccess(ret') /\ action' = action))]_vars

\* a support or protest has just created a project under its authority
C5_Witness ==
    /\ req.op \in DefineOps
    /\ req.kwargs.authority # None
    /\ \E pr \in project : /\ pr.id = req.kwargs.project
                           /\ pr.id_leader = req.kwargs.authority[1]
                           /\ pr.creation_date = FromTimestamp(req.kwargs.timestamp)

(***************************************************************************)
(* C6.  A listing (actions, projects, votes) requested with the id and     *)
(* the correct password of a member of rank regular returns the failure    *)
(* status and carries no data rows.                                        *)
(***************************************************************************)
C6_RegularMemberListingFails ==
    (/\ req.op \in ListingOps
     /\ \E r \in RowsOf(member, req.kwargs.member) : r.rank = "regular"
     /\ PasswordMatches(member, req.kwargs.member, req.kwargs.password))
      => (IsFailure(ret) /\ "data" \notin ret.keys /\ ret.data = NoData)

\* a regular member whose credentials authenticate has just been refused
C6_Witness ==
    /\ req.op \in ListingOps
    /\ \E r \in RowsOf(member, req.kwargs.member) : r.rank = "regular"
    /\ Authenticates(member, req.kwargs.member, req.kwargs.password)
    /\ IsFailure(ret)

(***************************************************************************)
(* C7.  A leader request for an id that already has a row, with the        *)
(* correct password, returns success and leaves the member's rank and      *)
(* activity timestamp unchanged.  Stated as the claim has it (a call that  *)
(* returns None counts as success); the call raises instead.               *)
(***************************************************************************)
C7_RepeatedLeaderSucceeds ==
    [][(Acted({"leader"}) =>
          LET k == req'.kwargs
          IN  PasswordMatches(member, k.member, k.password)
                => /\ (IsSuccess(ret') \/ ret'.kind = "None")
                   /\ RowsOf(member', k.member) = RowsOf(member, k.member))]_vars

(***************************************************************************)
(* C8.  No error of a mutating operation leaves it as an exception: each   *)
(* is returned as the failure envelope.  Stated as the claim has it; a     *)
(* violated primary key is not an InternalError and is not caught.         *)
(***************************************************************************)
C8_NoExceptionEscapes ==
    req.op \in MutatingOps => ret.kind # "raise"

(***************************************************************************)
(* C9.  Every operation returns an envelope whose status is the success    *)
(* or the failure status.  Stated as the claim has it; a leader request    *)
(* that succeeds returns None.                                             *)
(***************************************************************************)
C9_AlwaysAnEnvelope ==
    req.op # ""
      => /\ ret.kind = "json"
         /\ "status" \in ret.keys
         /\ ret.status \in {STATUS_SUCCESS, STATUS_FAILURE}

(***************************************************************************)
(* C10.  trolls returns one row per member who authored an action and      *)
(* whose downvotes, summed over all their actions, exceed their upvotes    *)
(* summed likewise, carrying the two totals, and no other row.  Stated as  *)
(* the claim has it; the query filters and groups per action.              *)
(***************************************************************************)
\* votes of one direction cast on the actions a member authored
Received(m, direction) ==
    Cardinality({v \in vote :
                   /\ v.direction = direction
                   /\ \E ac \in action : ac.id = v.id_action /\ ac.id_member = m})

TrollMembers ==
    {m \in {ac.id_member : ac \in action} :
       Received(m, "down") > Received(m, "up")}

\* C10: the rows of trolls are exactly the members whose total downvotes
\* exceed their total upvotes, one row each, carrying the totals
C10_TrollsByMemberTotals ==
    (req.op = "trolls" /\ IsSuccess(ret))
      => /\ {ret.data[i][1] : i \in 1..Len(ret.data)} = TrollMembers
         /\ Len(ret.data) = Cardinality(TrollMembers)
         /\ \A i \in 1..Len(ret.data) :
              /\ ret.data[i][2] = Received(ret.data[i][1], "up")
              /\ ret.data[i][3] = Received(ret.data[i][1], "down")

(***************************************************************************)
(* C11.  The rows trolls returns are ordered by their total downvotes      *)
(* minus their total upvotes, descending, and rows of equal deficit by     *)
(* member id ascending.  Stated as the claim has it; the query orders by   *)
(* the counters of one action, not by the totals it returns.               *)
(***************************************************************************)
\* total downvotes minus total upvotes of a returned row
Deficit(row) == row[3] - row[2]

C11_TrollsOrderedByTotalDeficit ==
    (req.op = "trolls" /\ IsSuccess(ret))
      => \A i, j \in 1..Len(ret.data) :
           i < j => \/ Deficit(ret.data[i]) > Deficit(ret.data[j])
                    \/ /\ Deficit(ret.data[i]) = Deficit(ret.data[j])
                       /\ ret.data[i][1] <= ret.data[j][1]

(***************************************************************************)
(* C12.  A member who presents the correct password authenticates exactly  *)
(* when the stored activity year is the year of the wall clock, whatever   *)
(* timestamp the request carries: a provisioning request whose later       *)
(* steps can succeed then succeeds, and otherwise does not; a listing by   *)
(* a leader succeeds then, and otherwise returns the failure status.       *)
(***************************************************************************)
C12_AuthenticatesIffCurrentYear ==
    [][(Acted(ProvisioningOps \cup ListingOps) =>
          LET k == req'.kwargs
          IN  \A r \in RowsOf(member, k.member) :
                r.password = Crypt(k.password, SaltOf(r.password))
                  => IF req'.op \in ProvisioningOps
                       THEN RemainingStepsSucceed(req')
                              => (IsSuccess(ret')
                                    <=> r.activity_date.year = DatetimeNow.year)
                       ELSE r.rank = "leader"
                              => /\ IsSuccess(ret')
                                      <=> r.activity_date.year = DatetimeNow.year
                                 /\ IsSuccess(ret') \/ IsFailure(ret'))]_vars

\* C12 as claimed: the stored year is compared with the year of the
\* request's timestamp
C12_AuthenticatesIffRequestYear ==
    [][(Acted(ProvisioningOps) =>
          LET k == req'.kwargs
          IN  \A r \in RowsOf(member, k.member) :
                (/\ r.password = Crypt(k.password, SaltOf(r.password))
                 /\ RemainingStepsSucceed(req'))
                  => (IsSuccess(ret')
                        <=> r.activity_date.year
                              = FromTimestamp(k.timestamp).year))]_vars

\* a member whose stored year is not the year of the request's timestamp
\* has just been authenticated and served
C12_Witness ==
    /\ req.op \in ProvisioningOps
    /\ IsSuccess(ret)
    /\ \E r \in RowsOf(member, req.kwargs.member) :
         /\ r.password = Crypt(req.kwargs.password, SaltOf(r.password))
         /\ r.activity_date.year # FromTimestamp(req.kwargs.timestamp).year
         /\ r.activity_date.year = DatetimeNow.year

(***************************************************************************)
(* C13.  Every project row is owned by the id of a member row whose rank   *)
(* is leader.  Stated as the claim has it; _handle_project stores the      *)
(* authority it is given without looking it up.                            *)
(***************************************************************************)
C13_ProjectOwnerIsLeader ==
    \A pr \in project :
      \E r \in RowsOf(member, pr.id_leader) : r.rank = "leader"

(***************************************************************************)
(* C14.  Every action row names a project and a member that have rows,     *)
(* every vote row names an action and a member that have rows, and an      *)
(* upvote or downvote on an action id without a row is not served          *)
(* successfully and leaves the vote table as it was.                       *)
(***************************************************************************)
ReferencesResolve(db) ==
    /\ \A ac \in db.action : /\ RowsOf(db.project, ac.id_project) # {}
                             /\ RowsOf(db.member, ac.id_member) # {}
    /\ \A v \in db.vote : /\ RowsOf(db.action, v.id_action) # {}
                          /\ RowsOf(db.member, v.id_member) # {}

C14_ReferencesResolve ==
    [][/\ ReferencesResolve(Db)
       /\ ReferencesResolve(Db')
       /\ (Acted(VoteOps) /\ RowsOf(action, req'.kwargs.action) = {})
            => /\ ~IsSuccess(ret')
               /\ vote' = vote
               /\ MemberStepCompletes(req'.kwargs) => IsFailure(ret')]_vars

\* while another action has a row, a vote on an action id without one has
\* just been refused, its voter provisioned, and no vote row names that id
C14_Witness ==
    /\ req.op \in VoteOps
    /\ action # {}
    /\ RowsOf(action, req.kwargs.action) = {}
    /\ RowsOf(member, req.kwargs.member) # {}
    /\ IsFailure(ret)
    /\ ~ \E v \in vote : v.id_action = req.kwargs.action

(***************************************************************************)
(* C15.  A member row, once stored, stays as it is: no step removes it or  *)
(* stores another row for its id, so its rank and its activity date never  *)
(* change, and a support, protest, upvote or downvote naming a member      *)
(* that has a row leaves the member table as it was.                       *)
(***************************************************************************)
C15_MemberRowsNeverChange ==
    [][/\ \A r \in member : r \in member' /\ RowsOf(member', r.id) = {r}
       /\ (Acted(ProvisioningOps) /\ RowsOf(member, req'.kwargs.member) # {})
            => member' = member]_vars

\* a leader request has just named a member stored as regular, at another
\* date, and the member's row is still the regular one
C15_Witness ==
    /\ req.op = "leader"
    /\ \E r \in RowsOf(member, req.kwargs.member) :
         /\ r.rank = "regular"
         /\ r.activity_date # FromTimestamp(req.kwargs.timestamp)
    /\ Cardinality(RowsOf(member, req.kwargs.member)) = 1

(***************************************************************************)
(* C16.  A project row, once stored, stays as it is and stays the only     *)
(* row of its id, so its owning leader never changes; a support or         *)
(* protest naming a project id that has a row leaves the project table as  *)
(* it was, whatever authority it supplies.                                 *)
(***************************************************************************)
C16_ProjectRowsNeverChange ==
    [][/\ \A pr \in project : pr \in project' /\ RowsOf(project', pr.id) = {pr}
       /\ (Acted(DefineOps) /\ RowsOf(project, req'.kwargs.project) # {})
            => project' = project]_vars

\* a support or protest that supplied another authority than the owner of
\* its project has just been served, and the project still has its owner
C16_Witness ==
    /\ req.op \in DefineOps
    /\ IsSuccess(ret)
    /\ req.kwargs.authority # None
    /\ Cardinality(RowsOf(project, req.kwargs.project)) = 1
    /\ \E pr \in RowsOf(project, req.kwargs.project) :
         pr.id_leader # req.kwargs.authority[1]

(***************************************************************************)
(* C17.  actions, projects, votes and trolls leave the four tables as      *)
(* they were, whether they return success or failure; a listing naming a   *)
(* member id without a row stores no row for it.                           *)
(***************************************************************************)
ReadOps == ListingOps \cup {"trolls"}

C17_ReadsLeaveTablesUnchanged ==
    [][(Acted(ReadOps) =>
          /\ IsSuccess(ret') \/ IsFailure(ret')
          /\ member' = member
          /\ project' = project
          /\ action' = action
          /\ vote' = vote)]_vars

\* a listing naming a member id without a row has just been refused, and
\* the id still has no row while another member has one
C17_Witness ==
    /\ req.op \in ListingOps
    /\ IsFailure(ret)
    /\ member # {}
    /\ RowsOf(member, req.kwargs.member) = {}

(***************************************************************************)
(* C18.  A successful votes listing has at least one row for every member  *)
(* row of the store and none for any other id, whatever action or project  *)
(* filter it was given; a member without a vote has the single row         *)
(* (id, 0, 0); the rows come by member id ascending.                       *)
(***************************************************************************)
C18_VotesListsEveryMember ==
    (req.op = "votes" /\ IsSuccess(ret))
      => /\ {ret.data[i][1] : i \in 1..Len(ret.data)} = {r.id : r \in member}
         /\ \A r \in member :
              (~ \E v \in vote : v.id_member = r.id)
                => /\ \E i \in 1..Len(ret.data) : ret.data[i] = <<r.id, 0, 0>>
                   /\ \A i \in 1..Len(ret.data) :
                        ret.data[i][1] = r.id => ret.data[i] = <<r.id, 0, 0>>
         /\ \A i, j \in 1..Len(ret.data) :
              i < j => ret.data[i][1] <= ret.data[j][1]

\* a filtered votes listing has just returned a row with a count for a
\* member who voted and the row (id, 0, 0) for a member who did not
C18_Witness ==
    /\ req.op = "votes"
    /\ IsSuccess(ret)
    /\ req.kwargs.action # None \/ req.kwargs.project # None
    /\ \E i, j \in 1..Len(ret.data) :
         /\ ret.data[i][2] + ret.data[i][3] > 0
         /\ ret.data[j] = <<ret.data[j][1], 0, 0>>
         /\ ~ \E v \in vote : v.id_member = ret.data[j][1]

====
